---- MODULE Spec2Model ----
(***************************************************************************)
(* Model of kint.py: analytic evaluation of                                *)
(*     \int x^n j_l(a x) j_l(b x) dx                                       *)
(* from a table of hard-coded expressions.                                 *)
(*                                                                         *)
(* mpmath numbers (mp.mpf) are modelled as exact rationals <<num, den>>    *)
(* in lowest terms with den > 0, so +, -, *, / and integer powers are      *)
(* exact.  mp.cos and mp.sin are modelled at integer arguments by their    *)
(* values rounded to one decimal place.  Python exceptions are modelled    *)
(* as results whose exc field names the exception and whose line field is  *)
(* the source line that raised it.                                         *)
(***************************************************************************)
EXTENDS Integers, Sequences, FiniteSets

VARIABLES table, a, b, dps, poly, made, last, pc, args, result1, result2, an1, exc, ran, evals

vars == <<table, a, b, dps, poly, made, last, pc, args, result1, result2, an1, exc, ran, evals>>

(***************************************************************************)
(* Bounds of the model.                                                    *)
(***************************************************************************)
\* a and b range over 0..MaxA
MaxA == 2
\* evaluation points and integration bounds range over 0..MaxX
MaxX == 2
\* direct get_list requests ask for 0..MaxDeg monomials
MaxDeg == 2

(***************************************************************************)
(* Program constants.                                                      *)
(***************************************************************************)
\* mp.dps=200
DefaultDps == 200
\* if prec_remaining<13
MinPrecision == 13

\* Working precisions a session may run with: the module's own setting and
\* a low one under which the cancellation of the small inputs above already
\* exhausts the precision.
DpsChoices == {14, DefaultDps}

NoExc == "none"
None == [none |-> TRUE]

(***************************************************************************)
(* mp.mpf arithmetic on exact rationals.                                   *)
(***************************************************************************)
Abs(i) == IF i < 0 THEN -i ELSE i

RECURSIVE GCD(_, _)
GCD(m, n) == IF n = 0 THEN m ELSE GCD(n, m % n)

Norm(n, d) == LET g == GCD(Abs(n), d) IN <<n \div g, d \div g>>

\* mp.mpf(i) for an integer literal i
mpf(i) == <<i, 1>>

Neg(p) == <<-p[1], p[2]>>

Add(p, q) ==
    LET g == GCD(p[2], q[2])
    IN  Norm(p[1] * (q[2] \div g) + q[1] * (p[2] \div g), (p[2] \div g) * q[2])

Sub(p, q) == Add(p, Neg(q))

Mul(p, q) ==
    LET g1 == GCD(Abs(p[1]), q[2])
        g2 == GCD(Abs(q[1]), p[2])
    IN  <<(p[1] \div g1) * (q[1] \div g2), (p[2] \div g2) * (q[2] \div g1)>>

IsZero(p) == p[1] = 0

\* p / q for q # 0 (mpmath raises ZeroDivisionError for q = 0; every caller
\* tests the divisor first)
Div(p, q) == Mul(p, IF q[1] > 0 THEN <<q[2], q[1]>> ELSE <<-q[2], -q[1]>>)

RECURSIVE IPow(_, _)
IPow(i, e) == IF e = 0 THEN 1 ELSE i * IPow(i, e - 1)

\* p ** e for an integer-valued exponent e; 0 ** 0 = 1, and a negative power
\* of 0 is a division by zero that the callers test for
Pow(p, e) ==
    IF e >= 0 THEN <<IPow(p[1], e), IPow(p[2], e)>>
    ELSE Div(mpf(1), <<IPow(p[1], -e), IPow(p[2], -e)>>)

fabs(p) == <<Abs(p[1]), p[2]>>

\* Python's sum(...) / np.sum(...) over a sequence of numbers
RECURSIVE SumFrom(_, _)
SumFrom(s, i) == IF i > Len(s) THEN mpf(0) ELSE Add(s[i], SumFrom(s, i + 1))

sum(s) == SumFrom(s, 1)

\* mp.cos and mp.sin at the integer arguments 0..24 radians, to one decimal
CosTenths ==
    <<10, 5, -4, -10, -7, 3, 10, 8, -1, -9, -8, 0, 8, 9, 1, -8, -10, -3, 7, 10, 4, -5, -10, -5, 4>>

SinTenths ==
    <<0, 8, 9, 1, -8, -10, -3, 7, 10, 4, -5, -10, -5, 4, 10, 7, -3, -10, -8, 1, 9, 8, 0, -8, -9>>

cos(t) == Norm(CosTenths[Abs(t[1]) + 1], 10)

sin(t) == IF t[1] < 0 THEN Neg(Norm(SinTenths[Abs(t[1]) + 1], 10))
          ELSE Norm(SinTenths[t[1] + 1], 10)

(***************************************************************************)
(* mp.floor(mp.log10(v)) and the arithmetic on its results.  mp.log10(0)   *)
(* is -inf, -inf - (-inf) is nan, and every comparison with nan is False.  *)
(***************************************************************************)
Fin(v) == [tag |-> "fin", v |-> v]
NInf == [tag |-> "-inf"]
PInf == [tag |-> "+inf"]
NaN == [tag |-> "nan"]

\* floor(log10(q)) for an integer q >= 1
RECURSIVE Digits(_)
Digits(q) == IF q < 10 THEN 0 ELSE 1 + Digits(q \div 10)

\* mp.floor(mp.log10(p)) for p >= 0
floor_log10(p) ==
    IF p[1] = 0 THEN NInf
    ELSE IF p[1] >= p[2] THEN Fin(Digits(p[1] \div p[2]))
    ELSE LET c == -((-p[2]) \div p[1])
         IN  Fin(-(1 + Digits(c - 1)))

\* u - v
ExtSub(u, v) ==
    IF u.tag = "nan" \/ v.tag = "nan" THEN NaN
    ELSE IF u.tag = "fin" /\ v.tag = "fin" THEN Fin(u.v - v.v)
    ELSE IF u.tag = "fin" THEN (IF v.tag = "-inf" THEN PInf ELSE NInf)
    ELSE IF v.tag = "fin" THEN u
    ELSE IF u.tag = v.tag THEN NaN
    ELSE u

\* u < k for an integer k
ExtLt(u, k) ==
    CASE u.tag = "fin" -> u.v < k
      [] u.tag = "-inf" -> TRUE
      [] u.tag = "+inf" -> FALSE
      [] u.tag = "nan" -> FALSE

(***************************************************************************)
(* class Polynomial                                                        *)
(***************************************************************************)
\* Polynomial.__init__ ; stored is the dict as a set of <<n, list>> pairs
Polynomial(pa, pb) ==
    [a |-> pa, b |-> pb, a2 |-> Mul(pa, pa), b2 |-> Mul(pb, pb), stored |-> {}]

\* n in self.stored
InStored(p, n) == \E e \in p.stored : e[1] = n

\* self.stored[n]
Stored(p, n) == (CHOOSE e \in p.stored : e[1] = n)[2]

\* A faulty variant of Store that stores apoly, the powers of a^2 before
\* the multiplication by bpoly.
Store_BeforeProduct(p, n, lst) ==
    [p EXCEPT !.stored = {e \in p.stored : e[1] # n}
                             \cup {<<n, [i \in 1..n |-> Pow(p.a2, n - i)]>>}]

\* A faulty variant of Store that replaces the whole dict by the new entry.
Store_Replace(p, n, lst) ==
    [p EXCEPT !.stored = {<<n, lst>>}]

\* self.stored[n] = lst
Store(p, n, lst) ==
    [p EXCEPT !.stored = {e \in p.stored : e[1] # n} \cup {<<n, lst>>}]

\* np.full(n, v) followed by [0] = mp.mpf(1)
FullOne(n, v) == [i \in 1..n |-> IF i = 1 THEN mpf(1) ELSE v]

\* np.cumprod
RECURSIVE cumprod(_)
cumprod(s) ==
    IF Len(s) <= 1 THEN s
    ELSE LET init == cumprod(SubSeq(s, 1, Len(s) - 1))
         IN  Append(init, Mul(init[Len(init)], s[Len(s)]))

\* np.flipud
flipud(s) == [i \in 1..Len(s) |-> s[Len(s) + 1 - i]]

\* A faulty variant of _make_list that leaves out np.flipud.
make_list_NoFlip(p, n) ==
    LET apoly == cumprod(FullOne(n, p.a2))
        bpoly == cumprod(FullOne(n, p.b2))
    IN  [i \in 1..n |-> Mul(apoly[i], bpoly[i])]

\* Polynomial._make_list for n >= 1 (for n = 0 the assignment apoly[0]
\* raises IndexError, which get_list tests for)
make_list(p, n) ==
    LET apoly == flipud(cumprod(FullOne(n, p.a2)))
        bpoly == cumprod(FullOne(n, p.b2))
    IN  [i \in 1..n |-> Mul(apoly[i], bpoly[i])]

\* Lines 38-39: self.stored[n] = lst and return self.stored[n], for the lst
\* that _make_list(n) returned
StoreAndReturn(p, n, lst) ==
    [poly |-> Store(p, n, lst), exc |-> NoExc, line |-> 0, ret |-> lst, made |-> <<n>>]

\* A faulty variant of get_list that never looks into self.stored.
get_list_NoCache(p, n) ==
    IF n = 0
    THEN [poly |-> p, exc |-> "IndexError", line |-> 48, ret |-> None, made |-> <<>>]
    ELSE StoreAndReturn(p, n, make_list(p, n))

\* Polynomial.get_list.  made lists the n for which _make_list ran to its
\* end during the call.
get_list(p, n) ==
    IF InStored(p, n)
    THEN [poly |-> p, exc |-> NoExc, line |-> 0, ret |-> Stored(p, n), made |-> <<>>]
    ELSE IF n = 0
    THEN [poly |-> p, exc |-> "IndexError", line |-> 48, ret |-> None, made |-> <<>>]
    ELSE StoreAndReturn(p, n, make_list(p, n))

\* np.sum(coeff * g) for the outcome g of self.get_list(len(coeff))
SumProduct(coeff, g) ==
    IF g.exc # NoExc THEN g
    ELSE [g EXCEPT !.ret = sum([i \in 1..Len(coeff) |-> Mul(coeff[i], g.ret[i])])]

\* Polynomial.eval_poly: np.sum(coeff * self.get_list(len(coeff)))
eval_poly(p, coeff) == SumProduct(coeff, get_list(p, Len(coeff)))

(***************************************************************************)
(* class Term, class Part, class KnlInt                                    *)
(***************************************************************************)
\* Integer literals of the table.  Literals beyond 32 bits are written
\* L(hi, lo) for hi * 10^9 + lo.
I(c) == <<0, c>>
L(hi, lo) == <<hi, lo>>

\* mp.mpf(c) of a literal
MpfOfLit(c) == mpf(c[1] * 1000000000 + c[2])

\* Term.__init__
Term(c, n, m, coeffs) ==
    [c |-> c, n |-> n, m |-> m, coeffs |-> [i \in 1..Len(coeffs) |-> mpf(coeffs[i])]]

\* Term.__init__ with the default coeffs=[1]
TermDefault(c, n, m) == Term(c, n, m, <<1>>)

\* Part.__init__
Part(terms) == [terms |-> terms]

\* A faulty variant of KnlInt.__init__ that lists the sine parts first.
KnlInt_SineFirst(n, l, csum, cdiff, ssum, sdiff) ==
    [n |-> n, l |-> l, parts |-> <<ssum, sdiff, csum, cdiff>>]

\* KnlInt.__init__
KnlInt(n, l, csum, cdiff, ssum, sdiff) ==
    [n |-> n, l |-> l, parts |-> <<csum, cdiff, ssum, sdiff>>]

\* Lines 81-85: the product self.c * xn * abm * pol, for the outcome e of
\* poly.eval_poly(self.coeffs)
TermProduct(term, x, p, e) ==
    IF e.exc # NoExc THEN e
    ELSE [e EXCEPT !.ret =
              Mul(Mul(Mul(MpfOfLit(term.c), Pow(x, term.n)),
                      IF term.m # 0 THEN Pow(Mul(p.a, p.b), term.m) ELSE mpf(1)),
                  e.ret)]

\* Term.evaluate
TermEvaluate(term, x, p) ==
    IF IsZero(x) /\ term.n < 0
    THEN [poly |-> p, exc |-> "ZeroDivisionError", line |-> 81, ret |-> None, made |-> <<>>]
    ELSE TermProduct(term, x, p, eval_poly(p, term.coeffs))

\* A list comprehension after the element with outcome t: rest is the
\* outcome of the elements that follow.
Collect(t, rest) ==
    IF rest.exc # NoExc
    THEN [rest EXCEPT !.made = t.made \o rest.made]
    ELSE [rest EXCEPT !.ret = <<t.ret>> \o rest.ret, !.made = t.made \o rest.made]

\* The list comprehension [term.evaluate(x, poly) for term in terms] from
\* term i on: rets collects the values, poly threads the context through.
RECURSIVE EvaluateTerms(_, _, _, _)

\* The comprehension from term i on, for the outcome t of term i
EvaluateTermsAfter(terms, i, x, t) ==
    IF t.exc # NoExc THEN t
    ELSE Collect(t, EvaluateTerms(terms, i + 1, x, t.poly))

EvaluateTerms(terms, i, x, p) ==
    IF i > Len(terms)
    THEN [poly |-> p, exc |-> NoExc, line |-> 0, ret |-> <<>>, made |-> <<>>]
    ELSE EvaluateTermsAfter(terms, i, x, TermEvaluate(terms[i], x, p))

\* sum(...) of line 97 over the outcome ts of the list comprehension
SumTerms(ts) == IF ts.exc # NoExc THEN ts ELSE [ts EXCEPT !.ret = sum(ts.ret)]

\* Part.evaluate
PartEvaluate(part, x, p) == SumTerms(EvaluateTerms(part.terms, 1, x, p))

\* The list comprehension [part.evaluate(x, poly) for part in self.parts]
RECURSIVE EvaluateParts(_, _, _, _)

\* The comprehension from part i on, for the outcome t of part i
EvaluatePartsAfter(parts, i, x, t) ==
    IF t.exc # NoExc THEN t
    ELSE Collect(t, EvaluateParts(parts, i + 1, x, t.poly))

EvaluateParts(parts, i, x, p) ==
    IF i > Len(parts)
    THEN [poly |-> p, exc |-> NoExc, line |-> 0, ret |-> <<>>, made |-> <<>>]
    ELSE EvaluatePartsAfter(parts, i, x, PartEvaluate(parts[i], x, p))

\* abl = (poly.a * poly.b) ** (self.l + mp.mpf(1))
abl(self, p) == Pow(Mul(p.a, p.b), self.l + 1)

\* apb = poly.a + poly.b
apb(p) == Add(p.a, p.b)

\* A faulty variant of amb with the sign of apb.
amb_Plus(p) == Add(p.a, p.b)

\* amb = poly.a - poly.b
amb(p) == Sub(p.a, p.b)

\* A base ** e in a denominator raises ZeroDivisionError when the base is 0
\* and e # 0 (0 ** 0 is 1).
ZeroDivisor(base, e) == IsZero(base) /\ e # 0

\* The first of lines 118-124 to divide by zero, 0 when none does.
FirstZeroDivision(self, p) ==
    IF ZeroDivisor(apb(p), self.n - 2) THEN 118
    ELSE IF ZeroDivisor(amb(p), self.n - 2) THEN 119
    ELSE IF ZeroDivisor(apb(p), self.n - 1) THEN 120
    ELSE IF ZeroDivisor(amb(p), self.n - 1) THEN 121
    ELSE IF IsZero(abl(self, p)) THEN 124
    ELSE 0

\* A faulty variant of Termlist: cmterm adds cdiff instead of subtracting.
Termlist_SignSlip(self, x, p, parts) ==
    LET cpterm == Div(Mul(cos(Mul(x, apb(p))), Add(parts[1], parts[2])), Pow(apb(p), self.n - 2))
        cmterm == Div(Mul(cos(Mul(x, amb(p))), Add(parts[1], parts[2])), Pow(amb(p), self.n - 2))
        spterm == Div(Mul(sin(Mul(x, apb(p))), Add(parts[3], parts[4])), Pow(apb(p), self.n - 1))
        smterm == Div(Mul(sin(Mul(x, amb(p))), Sub(parts[3], parts[4])), Pow(amb(p), self.n - 1))
        terms == <<cpterm, cmterm, spterm, smterm>>
    IN  [i \in 1..4 |-> Mul(Div(<<1, 4>>, abl(self, p)), terms[i])]

\* Lines 118-124: termlist from the values csum, cdiff, ssum, sdiff of the
\* four parts, when no line divides by zero.
Termlist(self, x, p, parts) ==
    LET csum == parts[1]
        cdiff == parts[2]
        ssum == parts[3]
        sdiff == parts[4]
        cpterm == Div(Mul(cos(Mul(x, apb(p))), Add(csum, cdiff)), Pow(apb(p), self.n - 2))
        cmterm == Div(Mul(cos(Mul(x, amb(p))), Sub(csum, cdiff)), Pow(amb(p), self.n - 2))
        spterm == Div(Mul(sin(Mul(x, apb(p))), Add(ssum, sdiff)), Pow(apb(p), self.n - 1))
        smterm == Div(Mul(sin(Mul(x, amb(p))), Sub(ssum, sdiff)), Pow(amb(p), self.n - 1))
        terms == <<cpterm, cmterm, spterm, smterm>>
    IN  [i \in 1..4 |-> Mul(Div(<<1, 4>>, abl(self, p)), terms[i])]

\* Lines 126-133: prec_remaining under working precision d (mp.dps)
PrecRemaining(termlist, d) ==
    LET abslist == [i \in 1..4 |-> fabs(termlist[i])]
        maxdigits == floor_log10(sum(abslist))
        result == sum(termlist)
        resdigits == floor_log10(fabs(result))
        prec_loss == ExtSub(maxdigits, resdigits)
    IN  ExtSub(Fin(d), prec_loss)

\* An exception e raised by KnlInt.evaluate at line ln, after the parts
\* with outcome ps were evaluated
Raise(ps, e, ln, pr) ==
    [poly |-> ps.poly, exc |-> e, line |-> ln, ret |-> None, made |-> ps.made, prec |-> pr]

\* Lines 134-140.  Line 137 calls sys.exit, but the module never imports
\* sys, so the call raises NameError.
GuardAndReturn(ps, termlist, prec_remaining) ==
    IF ExtLt(prec_remaining, MinPrecision)
    THEN Raise(ps, "NameError", 137, prec_remaining)
    ELSE [poly |-> ps.poly, exc |-> NoExc, line |-> 0, ret |-> sum(termlist),
          made |-> ps.made, prec |-> prec_remaining]

\* Lines 126-140
AfterTermlist(ps, termlist, d) ==
    GuardAndReturn(ps, termlist, PrecRemaining(termlist, d))

\* Lines 114-140: zdiv is the first line to divide by zero, 0 when none
AfterParts(self, x, d, ps, zdiv) ==
    IF zdiv # 0 THEN Raise(ps, "ZeroDivisionError", zdiv, None)
    ELSE AfterTermlist(ps, Termlist(self, x, ps.poly, ps.ret), d)

\* Lines 112-140, for the outcome ps of the list comprehension of line 112
AfterPartlist(self, x, d, ps) ==
    IF ps.exc # NoExc THEN Raise(ps, ps.exc, ps.line, None)
    ELSE AfterParts(self, x, d, ps, FirstZeroDivision(self, ps.poly))

\* KnlInt.evaluate under working precision d; prec is the prec_remaining
\* that line 134 prints, None when the line is not reached.
KnlIntEvaluate(self, x, p, d) ==
    AfterPartlist(self, x, d, EvaluateParts(self.parts, 1, x, p))

(***************************************************************************)
(* The table integrals, lines 157-355.                                     *)
(***************************************************************************)
\* n=4, l=0: the variables at line 166
Block_4_0 ==
    [n |-> 4, l |-> 0,
     csum |->
      Part(<< >>),
     cdiff |->
      Part(<<
        TermDefault(I(-4), 1, 0) >>),
     ssum |->
      Part(<<
        TermDefault(I(-4), 2, 1) >>),
     sdiff |->
      Part(<<
        TermDefault(I(4), 0, 0),
        Term(I(-2), 2, 0, <<1, 1>>) >>)]

\* n=4, l=1: the variables at line 175
Block_4_1 ==
    [n |-> 4, l |-> 1,
     csum |->
      Part(<<
        TermDefault(I(8), 1, 1) >>),
     cdiff |->
      Part(<<
        Term(I(2), 1, 0, <<1, 1>>) >>),
     ssum |->
      Part(<<
        TermDefault(I(-12), 0, 1),
        Term(I(2), 2, 1, <<1, 1>>) >>),
     sdiff |->
      Part(<<
        TermDefault(I(4), 2, 2),
        Term(I(-4), 0, 0, <<1, 1>>) >>)]

\* n=4, l=2: the variables at line 184
Block_4_2 ==
    [n |-> 4, l |-> 2,
     csum |->
      Part(<<
        TermDefault(I(36), -1, 1),
        Term(I(-6), 1, 1, <<1, 1>>) >>),
     cdiff |->
      Part(<<
        TermDefault(I(-16), 1, 2),
        Term(I(18), -1, 0, <<1, 1>>) >>),
     ssum |->
      Part(<<
        TermDefault(I(-4), 2, 3),
        Term(I(36), 0, 1, <<1, 1>>) >>),
     sdiff |->
      Part(<<
        Term(I(-2), 2, 2, <<1, 1>>),
        Term(I(2), 0, 0, <<3, 32, 3>>) >>)]

\* n=4, l=3: the variables at line 193
Block_4_3 ==
    [n |-> 4, l |-> 3,
     csum |->
      Part(<<
        TermDefault(I(300), -3, 1),
        TermDefault(I(28), 1, 3),
        Term(I(-210), -1, 1, <<1, 1>>) >>),
     cdiff |->
      Part(<<
        Term(I(150), -3, 0, <<1, 1>>),
        Term(I(12), 1, 2, <<1, 1>>),
        Term(I(-30), -1, 0, <<1, 12, 1>>) >>),
     ssum |->
      Part(<<
        Term(I(600), -2, 1, <<1, 1>>),
        Term(I(2), 2, 3, <<1, 1>>),
        Term(I(-2), 0, 1, <<15, 116, 15>>) >>),
     sdiff |->
      Part(<<
        TermDefault(I(4), 2, 4),
        Term(I(-144), 0, 2, <<1, 1>>),
        Term(I(150), -2, 0, <<1, 6, 1>>) >>)]

\* n=4, l=4: the variables at line 202
Block_4_4 ==
    [n |-> 4, l |-> 4,
     csum |->
      Part(<<
        TermDefault(I(8820), -5, 1),
        Term(I(-7770), -3, 1, <<1, 1>>),
        Term(I(-20), 1, 3, <<1, 1>>),
        Term(I(30), -1, 1, <<7, 60, 7>>) >>),
     cdiff |->
      Part(<<
        TermDefault(I(-44), 1, 4),
        Term(I(4410), -5, 0, <<1, 1>>),
        Term(I(1110), -1, 2, <<1, 1>>),
        Term(I(-420), -3, 0, <<4, 29, 4>>) >>),
     ssum |->
      Part(<<
        TermDefault(I(-4), 2, 5),
        Term(I(17640), -4, 1, <<1, 1>>),
        Term(I(400), 0, 3, <<1, 1>>),
        Term(I(-210), -2, 1, <<11, 50, 11>>) >>),
     sdiff |->
      Part(<<
        Term(I(-2), 2, 4, <<1, 1>>),
        Term(I(4410), -4, 0, <<1, 6, 1>>),
        Term(I(-210), -2, 0, <<1, 35, 35, 1>>),
        Term(I(6), 0, 2, <<15, 104, 15>>) >>)]

\* n=4, l=5: the variables at line 211
Block_4_5 ==
    [n |-> 4, l |-> 5,
     csum |->
      Part(<<
        TermDefault(I(510300), -7, 1),
        TermDefault(I(64), 1, 5),
        Term(I(-470610), -5, 1, <<1, 1>>),
        Term(I(-3990), -1, 3, <<1, 1>>),
        Term(I(420), -3, 1, <<63, 326, 63>>) >>),
     cdiff |->
      Part(<<
        Term(I(255150), -7, 0, <<1, 1>>),
        Term(I(30), 1, 4, <<1, 1>>),
        Term(I(-420), -1, 2, <<2, 15, 2>>),
        Term(I(210), -3, 0, <<9, 443, 443, 9>>),
        Term(I(-5670), -5, 0, <<19, 128, 19>>) >>),
     ssum |->
      Part(<<
        Term(I(1020600), -6, 1, <<1, 1>>),
        Term(I(2), 2, 5, <<1, 1>>),
        Term(I(210), -2, 1, <<9, 215, 215, 9>>),
        Term(I(-5670), -4, 1, <<31, 122, 31>>),
        Term(I(-2), 0, 3, <<105, 692, 105>>) >>),
     sdiff |->
      Part(<<
        TermDefault(I(4), 2, 6),
        Term(I(-900), 0, 4, <<1, 1>>),
        Term(I(255150), -6, 0, <<1, 6, 1>>),
        Term(I(-22680), -4, 0, <<1, 22, 22, 1>>),
        Term(I(420), -2, 2, <<37, 150, 37>>) >>)]

\* n=4, l=6: the variables at line 220
Block_4_6 ==
    [n |-> 4, l |-> 6,
     csum |->
      Part(<<
        TermDefault(I(48024900), -9, 1),
        Term(I(-45218250), -7, 1, <<1, 1>>),
        Term(I(-42), 1, 5, <<1, 1>>),
        Term(I(2520), -1, 3, <<1, 7, 1>>),
        Term(I(-630), -3, 1, <<33, 995, 995, 33>>),
        Term(I(1890), -5, 1, <<1749, 7712, 1749>>) >>),
     cdiff |->
      Part(<<
        TermDefault(I(-88), 1, 6),
        Term(I(24012450), -9, 0, <<1, 1>>),
        Term(I(11340), -1, 4, <<1, 1>>),
        Term(I(-623700), -7, 0, <<17, 111, 17>>),
        Term(I(-1260), -3, 2, <<159, 710, 159>>),
        Term(I(1890), -5, 0, <<187, 5418, 5418, 187>>) >>),
     ssum |->
      Part(<<
        TermDefault(I(-4), 2, 7),
        Term(I(96049800), -8, 1, <<1, 1>>),
        Term(I(1764), 0, 5, <<1, 1>>),
        Term(I(-6300), -2, 3, <<11, 42, 11>>),
        Term(I(7560), -4, 1, <<55, 754, 754, 55>>),
        Term(I(-103950), -6, 1, <<177, 662, 177>>) >>),
     sdiff |->
      Part(<<
        Term(I(-2), 2, 6, <<1, 1>>),
        Term(I(24012450), -8, 0, <<1, 6, 1>>),
        Term(I(-3150), -2, 2, <<3, 61, 61, 3>>),
        Term(I(-103950), -6, 0, <<25, 483, 483, 25>>),
        Term(I(4), 0, 4, <<105, 673, 105>>),
        Term(I(1890), -4, 0, <<11, 1205, 4040, 1205, 11>>) >>)]

\* n=4, l=7: the variables at line 229
Block_4_7 ==
    [n |-> 4, l |-> 7,
     csum |->
      Part(<<
        TermDefault(L(6, 640533900), -11, 1),
        TermDefault(I(116), 1, 7),
        Term(L(-6, -328372050), -9, 1, <<1, 1>>),
        Term(I(-27468), -1, 5, <<1, 1>>),
        Term(I(3118500), -7, 1, <<169, 692, 169>>),
        Term(I(-20790), -5, 1, <<325, 5446, 5446, 325>>),
        Term(I(2520), -3, 3, <<407, 1675, 407>>) >>),
     cdiff |->
      Part(<<
        Term(L(3, 320266950), -11, 0, <<1, 1>>),
        Term(I(56), 1, 6, <<1, 1>>),
        Term(I(-252), -1, 4, <<25, 168, 25>>),
        Term(I(-28378350), -9, 0, <<53, 340, 53>>),
        Term(I(1260), -3, 2, <<99, 2390, 2390, 99>>),
        Term(I(623700), -7, 0, <<104, 2471, 2471, 104>>),
        Term(I(-20790), -5, 0, <<13, 2032, 7452, 2032, 13>>) >>),
     ssum |->
      Part(<<
        Term(L(13, 281067800), -10, 1, <<1, 1>>),
        Term(I(2), 2, 7, <<1, 1>>),
        Term(I(3150), -2, 3, <<11, 205, 205, 11>>),
        Term(I(-12), 0, 5, <<63, 397, 63>>),
        Term(I(-28378350), -8, 1, <<95, 346, 95>>),
        Term(I(20790), -6, 1, <<4017, 44359, 44359, 4017>>),
        Term(I(-20790), -4, 1, <<13, 831, 2560, 831, 13>>) >>),
     sdiff |->
      Part(<<
        TermDefault(I(4), 2, 8),
        Term(I(-3136), 0, 6, <<1, 1>>),
        Term(L(3, 320266950), -10, 0, <<1, 6, 1>>),
        Term(I(-56756700), -8, 0, <<7, 127, 127, 7>>),
        Term(I(12600), -2, 4, <<19, 70, 19>>),
        Term(I(-83160), -4, 2, <<44, 487, 487, 44>>),
        Term(I(20790), -6, 0, <<299, 18932, 58290, 18932, 299>>) >>)]

\* n=4, l=8: the variables at line 238
Block_4_8 ==
    [n |-> 4, l |-> 8,
     csum |->
      Part(<<
        TermDefault(L(1264, 255492500), -13, 1),
        Term(L(-1214, -451488250), -11, 1, <<1, 1>>),
        Term(I(-72), 1, 7, <<1, 1>>),
        Term(I(1260), -1, 5, <<11, 72, 11>>),
        Term(I(-13860), -3, 3, <<39, 830, 830, 39>>),
        Term(I(-40540500), -7, 1, <<48, 625, 625, 48>>),
        Term(I(28378350), -9, 1, <<3855, 15124, 3855>>),
        Term(I(20790), -5, 1, <<195, 16224, 53692, 16224, 195>>) >>),
     cdiff |->
      Part(<<
        TermDefault(I(-148), 1, 8),
        Term(L(632, 127746250), -13, 0, <<1, 1>>),
        Term(I(59220), -1, 6, <<1, 1>>),
        Term(L(-7, -662154500), -11, 0, <<38, 241, 38>>),
        Term(I(-27720), -3, 4, <<147, 575, 147>>),
        Term(I(28378350), -9, 0, <<510, 10907, 10907, 510>>),
        Term(I(20790), -5, 2, <<3107, 40158, 40158, 3107>>),
        Term(I(-8108100), -7, 0, <<15, 1259, 4182, 1259, 15>>) >>),
     ssum |->
      Part(<<
        TermDefault(I(-4), 2, 9),
        Term(L(2528, 510985000), -12, 1, <<1, 1>>),
        Term(I(5184), 0, 7, <<1, 1>>),
        Term(I(-138600), -2, 5, <<5, 18, 5>>),
        Term(I(-1351350), -6, 1, <<99, 3396, 9410, 3396, 99>>),
        Term(L(-3, -831077250), -10, 1, <<139, 498, 139>>),
        Term(I(83160), -4, 3, <<260, 2549, 2549, 260>>),
        Term(I(56756700), -8, 1, <<345, 3409, 3409, 345>>) >>),
     sdiff |->
      Part(<<
        Term(I(-2), 2, 8, <<1, 1>>),
        Term(L(632, 127746250), -12, 0, <<1, 6, 1>>),
        Term(I(-34650), -2, 4, <<3, 53, 53, 3>>),
        Term(L(-3, -831077250), -10, 0, <<21, 367, 367, 21>>),
        Term(I(4), 0, 6, <<315, 1963, 315>>),
        Term(I(-1351350), -6, 0, <<3, 862, 7335, 7335, 862, 3>>),
        Term(I(28378350), -8, 0, <<60, 3017, 8862, 3017, 60>>),
        Term(I(20790), -4, 2, <<91, 4525, 13240, 4525, 91>>) >>)]

\* n=4, l=9: the variables at line 247
Block_4_9 ==
    [n |-> 4, l |-> 9,
     csum |->
      Part(<<
        TermDefault(L(316653, 859021500), -15, 1),
        TermDefault(I(184), 1, 9),
        Term(L(-305907, -687335250), -13, 1, <<1, 1>>),
        Term(I(-116820), -1, 7, <<1, 1>>),
        Term(I(13860), -3, 5, <<975, 3686, 975>>),
        Term(I(-270270), -5, 3, <<1555, 17262, 17262, 1555>>),
        Term(L(2, 554051500), -11, 1, <<11373, 43390, 11373>>),
        Term(I(-28378350), -9, 1, <<21998, 249171, 249171, 21998>>),
        Term(I(40540500), -7, 1, <<68, 2903, 8565, 2903, 68>>) >>),
     cdiff |->
      Part(<<
        Term(L(158326, 929510750), -15, 0, <<1, 1>>),
        Term(I(90), 1, 8, <<1, 1>>),
        Term(I(-3960), -1, 6, <<7, 45, 7>>),
        Term(L(-716, -411445750), -13, 0, <<103, 648, 103>>),
        Term(I(6930), -3, 4, <<273, 5363, 5363, 273>>),
        Term(I(1277025750), -11, 0, <<3145, 62991, 62991, 3145>>),
        Term(I(4054050), -7, 0, <<17, 6765, 65753, 65753, 6765, 17>>),
        Term(I(-270270), -5, 2, <<120, 7329, 22736, 7329, 120>>),
        Term(I(-56756700), -9, 0, <<833, 52514, 164475, 52514, 833>>) >>),
     ssum |->
      Part(<<
        Term(L(633307, 718043000), -14, 1, <<1, 1>>),
        Term(I(2), 2, 9, <<1, 1>>),
        Term(I(6930), -2, 5, <<39, 665, 665, 39>>),
        Term(I(-4), 0, 7, <<495, 3061, 495>>),
        Term(L(-238, -803815250), -12, 1, <<573, 2030, 573>>),
        Term(I(255405150), -10, 1, <<21947, 202709, 202709, 21947>>),
        Term(I(-1891890), -4, 3, <<5, 215, 608, 215, 5>>),
        Term(I(1351350), -6, 1, <<51, 7586, 55503, 55503, 7586, 51>>),
        Term(I(-4054050), -8, 1, <<13600, 350695, 913962, 350695, 13600>>) >>),
     sdiff |->
      Part(<<
        TermDefault(I(4), 2, 10),
        Term(I(-8100), 0, 8, <<1, 1>>),
        Term(L(158326, 929510750), -14, 0, <<1, 6, 1>>),
        Term(I(-7567560), -4, 4, <<13, 118, 118, 13>>),
        Term(L(-955, -215261000), -12, 0, <<22, 375, 375, 22>>),
        Term(I(13860), -2, 6, <<127, 450, 127>>),
        Term(I(-8108100), -8, 0, <<323, 48975, 361340, 361340, 48975, 323>>),
        Term(I(510810300), -10, 0, <<1037, 45881, 130820, 45881, 1037>>),
        Term(I(1351350), -6, 2, <<1062, 27015, 70126, 27015, 1062>>) >>)]

\* n=4, l=10: the variables at line 256
Block_4_10 ==
    [n |-> 4, l |-> 10,
     csum |->
      Part(<<
        TermDefault(L(100863567, 447142500), -17, 1),
        Term(L(-97855355, -786438250), -15, 1, <<1, 1>>),
        Term(I(-110), 1, 9, <<1, 1>>),
        Term(I(1980), -1, 7, <<26, 165, 26>>),
        Term(I(-12870), -3, 5, <<441, 8203, 8203, 441>>),
        Term(L(-21, -709437750), -11, 1, <<10811, 112109, 112109, 10811>>),
        Term(L(716, 411445750), -13, 1, <<13471, 50392, 13471>>),
        Term(I(-4054050), -7, 1, <<323, 62135, 507299, 507299, 62135, 323>>),
        Term(I(270270), -5, 3, <<680, 34517, 102480, 34517, 680>>),
        Term(I(16216200), -9, 1, <<93347, 2888861, 7948878, 2888861, 93347>>) >>),
     cdiff |->
      Part(<<
        TermDefault(I(-224), 1, 10),
        Term(L(50431783, 723571250), -17, 0, <<1, 1>>),
        Term(I(214830), -1, 8, <<1, 1>>),
        Term(L(-353907, -254200500), -15, 0, <<67, 419, 67>>),
        Term(I(-25740), -3, 6, <<1519, 5606, 1519>>),
        Term(L(716, 411445750), -13, 0, <<1919, 36748, 36748, 1919>>),
        Term(I(270270), -5, 4, <<7820, 78617, 78617, 7820>>),
        Term(L(-43, -418875500), -11, 0, <<456, 24339, 73330, 24339, 456>>),
        Term(I(-8108100), -7, 2, <<3910, 118660, 324617, 118660, 3910>>),
        Term(I(4054050), -9, 0, <<15181, 3001979, 24809428, 24809428, 3001979, 15181>>) >>),
     ssum |->
      Part(<<
        TermDefault(I(-4), 2, 11),
        Term(L(201727134, 894285000), -16, 1, <<1, 1>>),
        Term(I(12100), 0, 9, <<1, 1>>),
        Term(I(7567560), -4, 5, <<49, 422, 422, 49>>),
        Term(I(-25740), -2, 7, <<157, 550, 157>>),
        Term(L(-176953, -627100250), -14, 1, <<251, 882, 251>>),
        Term(L(955, 215261000), -12, 1, <<2052, 18113, 18113, 2052>>),
        Term(I(-1351350), -6, 3, <<7718, 164231, 408030, 164231, 7718>>),
        Term(I(8108100), -8, 1, <<8075, 602055, 3737318, 3737318, 602055, 8075>>),
        Term(I(-1240539300), -10, 1, <<19323, 423039, 1059772, 423039, 19323>>) >>),
     sdiff |->
      Part(<<
        Term(I(-2), 2, 10, <<1, 1>>),
        Term(L(50431783, 723571250), -16, 0, <<1, 6, 1>>),
        Term(L(-176953, -627100250), -14, 0, <<39, 653, 653, 39>>),
        Term(I(-12870), -2, 6, <<49, 815, 815, 49>>),
        Term(I(6), 0, 8, <<495, 3044, 495>>),
        Term(I(1891890), -4, 4, <<20, 783, 2162, 783, 20>>),
        Term(I(-1351350), -6, 2, <<459, 49179, 326326, 326326, 49179, 459>>),
        Term(L(238, 803815250), -12, 0, <<817, 33313, 93060, 33313, 817>>),
        Term(I(-620269650), -10, 0, <<2242, 250543, 1691711, 1691711, 250543, 2242>>),
        Term(I(4054050), -8, 0, <<323, 208318, 3842665, 9287180, 3842665, 208318, 323>>) >>)]

\* n=6, l=0: the variables at line 265
Block_6_0 ==
    [n |-> 6, l |-> 0,
     csum |->
      Part(<<
        TermDefault(I(-16), 3, 1) >>),
     cdiff |->
      Part(<<
        TermDefault(I(48), 1, 0),
        Term(I(-8), 3, 0, <<1, 1>>) >>),
     ssum |->
      Part(<<
        TermDefault(I(48), 2, 1),
        Term(I(-8), 4, 1, <<1, 1>>) >>),
     sdiff |->
      Part(<<
        TermDefault(I(-48), 0, 0),
        Term(I(24), 2, 0, <<1, 1>>),
        Term(I(-2), 4, 0, <<1, 6, 1>>) >>)]

\* n=6, l=1: the variables at line 274
Block_6_1 ==
    [n |-> 6, l |-> 1,
     csum |->
      Part(<<
        TermDefault(I(-80), 1, 1),
        Term(I(16), 3, 1, <<1, 1>>) >>),
     cdiff |->
      Part(<<
        Term(I(-16), 1, 0, <<1, 1>>),
        Term(I(2), 3, 0, <<1, 14, 1>>) >>),
     ssum |->
      Part(<<
        TermDefault(I(80), 0, 1),
        Term(I(-56), 2, 1, <<1, 1>>),
        Term(I(2), 4, 1, <<1, 6, 1>>) >>),
     sdiff |->
      Part(<<
        Term(I(16), 0, 0, <<1, 1>>),
        Term(I(8), 4, 2, <<1, 1>>),
        Term(I(-8), 2, 0, <<1, 12, 1>>) >>)]

\* n=6, l=2: the variables at line 283
Block_6_2 ==
    [n |-> 6, l |-> 2,
     csum |->
      Part(<<
        Term(I(168), 1, 1, <<1, 1>>),
        Term(I(-2), 3, 1, <<3, 26, 3>>) >>),
     cdiff |->
      Part(<<
        Term(I(-32), 3, 2, <<1, 1>>),
        Term(I(6), 1, 0, <<5, 54, 5>>) >>),
     ssum |->
      Part(<<
        Term(I(-240), 0, 1, <<1, 1>>),
        Term(I(-8), 4, 3, <<1, 1>>),
        Term(I(12), 2, 1, <<5, 26, 5>>) >>),
     sdiff |->
      Part(<<
        Term(I(-2), 4, 2, <<1, 6, 1>>),
        Term(I(-48), 0, 0, <<1, 9, 1>>),
        Term(I(6), 2, 0, <<1, 35, 35, 1>>) >>)]

\* n=6, l=3: the variables at line 292
Block_6_3 ==
    [n |-> 6, l |-> 3,
     csum |->
      Part(<<
        Term(I(1800), -1, 1, <<1, 1>>),
        Term(I(56), 3, 3, <<1, 1>>),
        Term(I(-30), 1, 1, <<11, 58, 11>>) >>),
     cdiff |->
      Part(<<
        Term(I(450), -1, 0, <<1, 6, 1>>),
        Term(I(4), 3, 2, <<3, 22, 3>>),
        Term(I(-6), 1, 0, <<5, 191, 191, 5>>) >>),
     ssum |->
      Part(<<
        Term(I(2), 4, 3, <<1, 6, 1>>),
        Term(I(-6), 2, 1, <<5, 111, 111, 5>>),
        Term(I(60), 0, 1, <<25, 98, 25>>) >>),
     sdiff |->
      Part(<<
        Term(I(8), 4, 4, <<1, 1>>),
        Term(I(-12), 2, 2, <<19, 78, 19>>),
        Term(I(6), 0, 0, <<35, 701, 701, 35>>) >>)]

\* n=6, l=4: the variables at line 301
Block_6_4 ==
    [n |-> 6, l |-> 4,
     csum |->
      Part(<<
        Term(I(29400), -3, 1, <<1, 1>>),
        Term(I(70), 1, 1, <<3, 73, 73, 3>>),
        Term(I(-4), 3, 3, <<5, 34, 5>>),
        Term(I(-1050), -1, 1, <<15, 58, 15>>) >>),
     cdiff |->
      Part(<<
        Term(I(-88), 3, 4, <<1, 1>>),
        Term(I(7350), -3, 0, <<1, 6, 1>>),
        Term(I(-2100), -1, 0, <<1, 21, 21, 1>>),
        Term(I(2), 1, 2, <<855, 3634, 855>>) >>),
     ssum |->
      Part(<<
        Term(I(-8), 4, 5, <<1, 1>>),
        Term(I(14700), -2, 1, <<3, 10, 3>>),
        Term(I(-50), 0, 1, <<63, 737, 737, 63>>),
        Term(I(4), 2, 3, <<155, 582, 155>>) >>),
     sdiff |->
      Part(<<
        Term(I(-2), 4, 4, <<1, 6, 1>>),
        Term(I(7350), -2, 0, <<1, 15, 15, 1>>),
        Term(I(2), 2, 2, <<45, 847, 847, 45>>),
        Term(I(-2), 0, 0, <<105, 7710, 24394, 7710, 105>>) >>)]

\* n=6, l=5: the variables at line 310
Block_6_5 ==
    [n |-> 6, l |-> 5,
     csum |->
      Part(<<
        Term(I(1428840), -5, 1, <<1, 1>>),
        Term(I(128), 3, 5, <<1, 1>>),
        Term(I(1260), -1, 1, <<27, 349, 349, 27>>),
        Term(I(-13230), -3, 1, <<71, 250, 71>>),
        Term(I(-6), 1, 3, <<1015, 3938, 1015>>) >>),
     cdiff |->
      Part(<<
        Term(I(357210), -5, 0, <<1, 6, 1>>),
        Term(I(-120), 1, 2, <<7, 142, 142, 7>>),
        Term(I(-13230), -3, 0, <<11, 185, 185, 11>>),
        Term(I(2), 3, 4, <<15, 98, 15>>),
        Term(I(630), -1, 0, <<3, 284, 930, 284, 3>>) >>),
     ssum |->
      Part(<<
        Term(I(714420), -4, 1, <<3, 10, 3>>),
        Term(I(2), 4, 5, <<1, 6, 1>>),
        Term(I(-42), 2, 3, <<5, 87, 87, 5>>),
        Term(I(-13230), -2, 1, <<21, 187, 187, 21>>),
        Term(I(6), 0, 1, <<315, 14980, 43418, 14980, 315>>) >>),
     sdiff |->
      Part(<<
        Term(I(8), 4, 6, <<1, 1>>),
        Term(I(357210), -4, 0, <<1, 15, 15, 1>>),
        Term(I(-276), 2, 4, <<5, 18, 5>>),
        Term(I(3000), 0, 2, <<7, 67, 67, 7>>),
        Term(I(-26460), -2, 0, <<1, 43, 120, 43, 1>>) >>)]

\* n=6, l=6: the variables at line 319
Block_6_6 ==
    [n |-> 6, l |-> 6,
     csum |->
      Part(<<
        Term(I(123492600), -7, 1, <<1, 1>>),
        Term(I(168), 1, 3, <<15, 277, 277, 15>>),
        Term(I(-2), 3, 5, <<21, 134, 21>>),
        Term(I(-561330), -5, 1, <<151, 522, 151>>),
        Term(I(1890), -3, 1, <<2519, 25109, 25109, 2519>>),
        Term(I(-1890), -1, 1, <<11, 628, 1890, 628, 11>>) >>),
     cdiff |->
      Part(<<
        Term(I(-176), 3, 6, <<1, 1>>),
        Term(I(30873150), -7, 0, <<1, 6, 1>>),
        Term(I(-2245320), -5, 0, <<6, 97, 97, 6>>),
        Term(I(-11340), -1, 2, <<23, 241, 241, 23>>),
        Term(I(60), 1, 4, <<287, 1062, 287>>),
        Term(I(1890), -3, 0, <<209, 11109, 32620, 11109, 209>>) >>),
     ssum |->
      Part(<<
        Term(I(-8), 4, 7, <<1, 1>>),
        Term(I(61746300), -6, 1, <<3, 10, 3>>),
        Term(I(48), 2, 5, <<56, 197, 56>>),
        Term(I(-187110), -4, 1, <<157, 1267, 1267, 157>>),
        Term(I(-168), 0, 3, <<555, 4807, 4807, 555>>),
        Term(I(3780), -2, 1, <<132, 3341, 8526, 3341, 132>>) >>),
     sdiff |->
      Part(<<
        Term(I(-2), 4, 6, <<1, 6, 1>>),
        Term(I(30873150), -6, 0, <<1, 15, 15, 1>>),
        Term(I(12), 2, 4, <<35, 583, 583, 35>>),
        Term(I(1890), -2, 0, <<11, 1902, 13559, 13559, 1902, 11>>),
        Term(I(-187110), -4, 0, <<17, 602, 1610, 602, 17>>),
        Term(I(-30), 0, 2, <<315, 12460, 34506, 12460, 315>>) >>)]

\* n=6, l=7: the variables at line 328
Block_6_7 ==
    [n |-> 6, l |-> 7,
     csum |->
      Part(<<
        Term(L(16, 232416200), -9, 1, <<1, 1>>),
        Term(I(232), 3, 7, <<1, 1>>),
        Term(I(-44594550), -7, 1, <<255, 874, 255>>),
        Term(I(1260), -1, 3, <<1067, 9969, 9969, 1067>>),
        Term(I(166320), -5, 1, <<4667, 41660, 41660, 4667>>),
        Term(I(-4), 1, 5, <<10395, 37406, 10395>>),
        Term(I(-6930), -3, 1, <<1131, 33919, 90468, 33919, 1131>>) >>),
     cdiff |->
      Part(<<
        Term(L(4, 58104050), -9, 0, <<1, 6, 1>>),
        Term(I(8), 3, 6, <<7, 44, 7>>),
        Term(I(-44594550), -7, 0, <<41, 651, 651, 41>>),
        Term(I(-28), 1, 4, <<225, 3931, 3931, 225>>),
        Term(I(-6930), -3, 0, <<39, 9069, 71176, 71176, 9069, 39>>),
        Term(I(1260), -1, 2, <<99, 4497, 12880, 4497, 99>>),
        Term(I(41580), -5, 0, <<1807, 76435, 214132, 76435, 1807>>) >>),
     ssum |->
      Part(<<
        Term(L(8, 116208100), -8, 1, <<3, 10, 3>>),
        Term(I(2), 4, 7, <<1, 6, 1>>),
        Term(I(-4), 2, 5, <<189, 3065, 3065, 189>>),
        Term(I(-14864850), -6, 1, <<283, 2197, 2197, 283>>),
        Term(I(-6930), -2, 1, <<39, 3946, 24927, 24927, 3946, 39>>),
        Term(I(20790), -4, 1, <<5239, 101496, 243810, 101496, 5239>>),
        Term(I(2), 0, 3, <<17325, 620424, 1672366, 620424, 17325>>) >>),
     sdiff |->
      Part(<<
        Term(I(8), 4, 8, <<1, 1>>),
        Term(L(4, 58104050), -8, 0, <<1, 15, 15, 1>>),
        Term(I(-8), 2, 6, <<595, 2064, 595>>),
        Term(I(140), 0, 4, <<2295, 18761, 18761, 2295>>),
        Term(I(-29729700), -6, 0, <<16, 529, 1390, 529, 16>>),
        Term(I(-13860), -2, 2, <<321, 6393, 15484, 6393, 321>>),
        Term(I(20790), -4, 0, <<325, 31671, 196644, 196644, 31671, 325>>) >>)]

\* n=6, l=8: the variables at line 337
Block_6_8 ==
    [n |-> 6, l |-> 8,
     csum |->
      Part(<<
        Term(L(2988, 240255000), -11, 1, <<1, 1>>),
        Term(I(-8), 3, 7, <<9, 56, 9>>),
        Term(L(-5, -533778250), -9, 1, <<383, 1306, 383>>),
        Term(I(36), 1, 5, <<385, 6491, 6491, 385>>),
        Term(I(12162150), -7, 1, <<13215, 111469, 111469, 13215>>),
        Term(I(-41580), -1, 3, <<13, 519, 1440, 519, 13>>),
        Term(I(62370), -3, 1, <<65, 8203, 56168, 56168, 8203, 65>>),
        Term(I(-1621620), -5, 1, <<1495, 33659, 84308, 33659, 1495>>) >>),
     cdiff |->
      Part(<<
        Term(I(-296), 3, 8, <<1, 1>>),
        Term(L(747, 60063750), -11, 0, <<1, 6, 1>>),
        Term(L(-11, -67556500), -9, 0, <<31, 487, 487, 31>>),
        Term(I(-41580), -1, 4, <<129, 1123, 1123, 129>>),
        Term(I(60), 1, 6, <<1491, 5270, 1491>>),
        Term(I(-6486480), -5, 0, <<20, 2479, 16828, 16828, 2479, 20>>),
        Term(I(12162150), -7, 0, <<1370, 52121, 142386, 52121, 1370>>),
        Term(I(20790), -3, 2, <<3679, 83999, 211260, 83999, 3679>>) >>),
     ssum |->
      Part(<<
        Term(I(-8), 4, 9, <<1, 1>>),
        Term(L(1494, 120127500), -10, 1, <<3, 10, 3>>),
        Term(L(-5, -533778250), -8, 1, <<147, 1117, 1117, 147>>),
        Term(I(24), 2, 7, <<327, 1124, 327>>),
        Term(I(-36), 0, 5, <<25795, 203261, 203261, 25795>>),
        Term(I(291060), -2, 3, <<91, 1583, 3708, 1583, 91>>),
        Term(I(-810810), -4, 1, <<185, 9707, 52092, 52092, 9707, 185>>),
        Term(I(8108100), -6, 1, <<3230, 54919, 127750, 54919, 3230>>) >>),
     sdiff |->
      Part(<<
        Term(I(-2), 4, 8, <<1, 6, 1>>),
        Term(L(747, 60063750), -10, 0, <<1, 15, 15, 1>>),
        Term(I(84), 2, 6, <<15, 239, 239, 15>>),
        Term(I(145530), -2, 2, <<13, 1026, 6017, 6017, 1026, 13>>),
        Term(L(-5, -533778250), -8, 0, <<17, 542, 1410, 542, 17>>),
        Term(I(4054050), -6, 0, <<470, 35923, 207655, 207655, 35923, 470>>),
        Term(I(-30), 0, 4, <<3465, 116760, 309286, 116760, 3465>>),
        Term(I(-810810), -4, 0, <<5, 1937, 28227, 63630, 28227, 1937, 5>>) >>)]

\* n=6, l=9: the variables at line 346
Block_6_9 ==
    [n |-> 6, l |-> 9,
     csum |->
      Part(<<
        Term(L(730739, 674665000), -13, 1, <<1, 1>>),
        Term(I(368), 3, 9, <<1, 1>>),
        Term(I(41580), -1, 5, <<429, 3563, 3563, 429>>),
        Term(L(-976, -924698750), -11, 1, <<535, 1818, 535>>),
        Term(I(-12), 1, 7, <<14685, 51274, 14685>>),
        Term(I(851350500), -9, 1, <<49759, 405409, 405409, 49759>>),
        Term(I(3243240), -5, 1, <<935, 59405, 344101, 344101, 59405, 935>>),
        Term(I(-270270), -3, 3, <<1865, 36289, 87780, 36289, 1865>>),
        Term(I(-60810750), -7, 1, <<13158, 254303, 613806, 254303, 13158>>) >>),
     cdiff |->
      Part(<<
        Term(L(182684, 918666250), -13, 0, <<1, 6, 1>>),
        Term(I(-2520), 1, 6, <<11, 181, 181, 11>>),
        Term(I(2), 3, 8, <<45, 278, 45>>),
        Term(L(-976, -924698750), -11, 0, <<87, 1357, 1357, 87>>),
        Term(I(-810810), -3, 2, <<40, 3753, 23555, 23555, 3753, 40>>),
        Term(I(20790), -1, 4, <<91, 3348, 9090, 3348, 91>>),
        Term(I(-121621500), -7, 0, <<425, 39561, 247196, 247196, 39561, 425>>),
        Term(I(425675250), -9, 0, <<10727, 383712, 1031794, 383712, 10727>>),
        Term(I(810810), -5, 0, <<85, 43930, 725636, 1696226, 725636, 43930, 85>>) >>),
     ssum |->
      Part(<<
        Term(L(365369, 837332500), -12, 1, <<3, 10, 3>>),
        Term(I(2), 4, 9, <<1, 6, 1>>),
        Term(I(-12), 2, 7, <<165, 2597, 2597, 165>>),
        Term(L(-325, -641566250), -10, 1, <<631, 4729, 4729, 631>>),
        Term(I(-1891890), -2, 3, <<5, 342, 1909, 1909, 342, 5>>),
        Term(I(-20270250), -6, 1, <<3230, 125051, 611383, 611383, 125051, 3230>>),
        Term(I(425675250), -8, 1, <<17697, 279340, 637158, 279340, 17697>>),
        Term(I(6), 0, 5, <<45045, 1457940, 3816038, 1457940, 45045>>),
        Term(I(810810), -4, 1, <<85, 17395, 214701, 464310, 214701, 17395, 85>>) >>),
     sdiff |->
      Part(<<
        Term(I(8), 4, 10, <<1, 1>>),
        Term(L(182684, 918666250), -12, 0, <<1, 15, 15, 1>>),
        Term(I(-48), 2, 8, <<255, 871, 255>>),
        Term(I(1800), 0, 6, <<1309, 10061, 10061, 1309>>),
        Term(I(-3783780), -2, 4, <<32, 511, 1170, 511, 32>>),
        Term(L(-651, -283132500), -10, 0, <<37, 1153, 2980, 1153, 37>>),
        Term(I(851350500), -8, 0, <<697, 46965, 260146, 260146, 46965, 697>>),
        Term(I(810810), -4, 2, <<2020, 78421, 383895, 383895, 78421, 2020>>),
        Term(I(-40540500), -6, 0, <<68, 13886, 171043, 369670, 171043, 13886, 68>>) >>)]

\* n=6, l=10: the variables at line 355
Block_6_10 ==
    [n |-> 6, l |-> 10,
     csum |->
      Part(<<
        Term(L(228624086, 213523000), -15, 1, <<1, 1>>),
        Term(I(-2), 3, 9, <<55, 338, 55>>),
        Term(I(440), 1, 7, <<117, 1892, 1892, 117>>),
        Term(L(-231400, -896977250), -13, 1, <<711, 2410, 711>>),
        Term(L(151, 966064250), -11, 1, <<91903, 731341, 731341, 91903>>),
        Term(I(-12870), -1, 5, <<441, 15348, 41030, 15348, 441>>),
        Term(I(90090), -3, 3, <<2040, 160491, 949025, 949025, 160491, 2040>>),
        Term(I(8108100), -7, 1, <<216087, 9860255, 51638802, 51638802, 9860255, 216087>>),
        Term(I(-482431950), -9, 1, <<630515, 11102120, 26156106, 11102120, 630515>>),
        Term(I(-270270), -5, 1, <<4845, 1243210, 17052484, 38054674, 17052484, 1243210, 4845>>) >>),
     cdiff |->
      Part(<<
        Term(I(-448), 3, 10, <<1, 1>>),
        Term(L(57156021, 553380750), -15, 0, <<1, 6, 1>>),
        Term(L(-925603, -587909000), -13, 0, <<29, 450, 450, 29>>),
        Term(I(-25740), -1, 6, <<2009, 16143, 16143, 2009>>),
        Term(I(2), 1, 8, <<161865, 560254, 161865>>),
        Term(I(-964863900), -9, 0, <<22534, 1787775, 10595035, 10595035, 1787775, 22534>>),
        Term(I(90090), -3, 4, <<28380, 497591, 1171170, 497591, 28380>>),
        Term(I(-1081080), -5, 2, <<32895, 1493435, 7805639, 7805639, 1493435, 32895>>),
        Term(L(21, 709437750), -11, 0, <<71117, 2442851, 6497480, 2442851, 71117>>),
        Term(I(4054050), -7, 0, <<15827, 4095912, 56365545, 125906008, 56365545, 4095912, 15827>>) >>),
     ssum |->
      Part(<<
        Term(I(-8), 4, 11, <<1, 1>>),
        Term(L(114312043, 106761500), -14, 1, <<3, 10, 3>>),
        Term(L(-77133, -632325750), -12, 1, <<853, 6331, 6331, 853>>),
        Term(I(-2200), 0, 7, <<2457, 18553, 18553, 2457>>),
        Term(I(4), 2, 9, <<4565, 15522, 4565>>),
        Term(I(1261260), -2, 5, <<363, 5469, 12320, 5469, 363>>),
        Term(I(-270270), -4, 3, <<44540, 1445229, 6646695, 6646695, 1445229, 44540>>),
        Term(I(-137837700), -8, 1, <<211983, 6922955, 31917318, 31917318, 6922955, 211983>>),
        Term(L(8, 683775100), -10, 1, <<302860, 4556895, 10257402, 4556895, 302860>>),
        Term(I(2702700), -6, 1, <<26163, 2653768, 26982649, 55545304, 26982649, 2653768, 26163>>) >>),
     sdiff |->
      Part(<<
        Term(I(-2), 4, 10, <<1, 6, 1>>),
        Term(L(57156021, 553380750), -14, 0, <<1, 15, 15, 1>>),
        Term(I(2), 2, 8, <<1485, 23167, 23167, 1485>>),
        Term(I(630630), -2, 4, <<60, 3743, 20181, 20181, 3743, 60>>),
        Term(L(-77133, -632325750), -12, 0, <<101, 3098, 7970, 3098, 101>>),
        Term(L(4, 341887550), -10, 0, <<50027, 3121140, 16805745, 16805745, 3121140, 50027>>),
        Term(I(-2), 0, 6, <<315315, 9921780, 25747834, 9921780, 315315>>),
        Term(I(1351350), -6, 0, <<969, 769029, 21161479, 92938987, 92938987, 21161479, 769029, 969>>),
        Term(I(-270270), -4, 2, <<2295, 342890, 3799599, 7983360, 3799599, 342890, 2295>>),
        Term(I(-68918850), -8, 0, <<21698, 3276813, 36459210, 76693582, 36459210, 3276813, 21698>>) >>)]

\* The blocks in source order; each ends with the assignment
\* integrals[(n, l)] = KnlInt(n, l, csum, cdiff, ssum, sdiff).
Population ==
    << Block_4_0,
       Block_4_1,
       Block_4_2,
       Block_4_3,
       Block_4_4,
       Block_4_5,
       Block_4_6,
       Block_4_7,
       Block_4_8,
       Block_4_9,
       Block_4_10,
       Block_6_0,
       Block_6_1,
       Block_6_2,
       Block_6_3,
       Block_6_4,
       Block_6_5,
       Block_6_6,
       Block_6_7,
       Block_6_8,
       Block_6_9,
       Block_6_10 >>

\* (n, l) of a block
Key(s) == <<s.n, s.l>>

\* The value the last line of a block assigns:
\* integrals[(n, l)] = KnlInt(n, l, csum, cdiff, ssum, sdiff)
Assigned(s) == [key |-> Key(s), val |-> KnlInt(s.n, s.l, s.csum, s.cdiff, s.ssum, s.sdiff)]

\* A faulty variant of Populate that loses the first assignment.
Populate_DropFirst(k) ==
    {Assigned(Population[i]) :
        i \in {i \in 2..k : \A j \in (i + 1)..k : Key(Population[j]) # Key(Population[i])}}

\* integrals = {} followed by the first k assignments: an assignment stays
\* unless a later one to the same key replaces it, as in a dict.
Populate(k) ==
    {Assigned(Population[i]) :
        i \in {i \in 1..k : \A j \in (i + 1)..k : Key(Population[j]) # Key(Population[i])}}

\* The dict integrals after the module is loaded, as a set of key/value
\* records.
integrals == Populate(Len(Population))

\* (n, l) in integrals, for the dict as it is now
InTable(key) == \E e \in table : e.key = key

\* integrals[(n, l)]
Entry(key) == (CHOOSE e \in table : e.key = key).val

(***************************************************************************)
(* Inputs of the model.                                                    *)
(***************************************************************************)
Inputs == 0..MaxA
Points == 0..MaxX

\* Entries evaluated by the model: those whose numerators and denominators
\* stay within 32-bit integers for the inputs above.
EvalKeys == {<<4, 0>>, <<4, 1>>, <<4, 2>>, <<6, 0>>, <<6, 1>>, <<6, 2>>}

\* Entries a session evaluates directly on its own context; Compare is
\* called on every entry of EvalKeys.
DirectKeys == {<<4, 0>>, <<4, 2>>, <<6, 2>>}

\* Keys looked up without an entry.
MissingKeys == {<<2, 0>>, <<2, 10>>, <<8, 0>>}

QueryKeys == EvalKeys \cup MissingKeys

\* Lengths of the coefficient vectors of the table and of direct requests.
Degrees ==
    (0..MaxDeg) \cup
    {Len(e.val.parts[i].terms[j].coeffs) :
        <<e, i, j>> \in {t \in integrals \X (1..4) \X (1..10) :
                            t[3] <= Len(t[1].val.parts[t[2]].terms)}}

RECURSIVE Count(_, _)
Count(s, n) ==
    IF s = <<>> THEN 0
    ELSE (IF Head(s) = n THEN 1 ELSE 0) + Count(Tail(s), n)

\* made[n] after the completed _make_list calls listed in s
AddMade(m, s) == [n \in DOMAIN m |-> m[n] + Count(s, n)]

(***************************************************************************)
(* The state machine.  A session has parameters a and b, a working         *)
(* precision dps (mp.dps) and a context poly = Polynomial(a, b); it calls  *)
(* poly.get_list and integrals[key].evaluate directly, or calls Compare,   *)
(* which runs lines 373-376 one statement at a time.                       *)
(*   made[n]  number of times _make_list(n) ran to its end on poly         *)
(*   last     the last direct call and its result                          *)
(*   pc       "idle", or the line Compare executes next, or "done" /       *)
(*            "raised"                                                     *)
(*   ran      the lines of Compare executed so far                         *)
(*   evals    number of KnlInt.evaluate calls made by Compare              *)
(*   exc      the exception that ended Compare                             *)
(***************************************************************************)
Init ==
    /\ table = integrals
    /\ a \in Inputs
    /\ b \in Inputs
    /\ dps = DefaultDps
    /\ poly = Polynomial(mpf(a), mpf(b))
    /\ made = [n \in Degrees |-> 0]
    /\ last = None
    /\ pc = "idle"
    /\ args = None
    /\ result1 = None
    /\ result2 = None
    /\ an1 = None
    /\ exc = None
    /\ ran = <<>>
    /\ evals = 0

CompareVars == <<pc, args, result1, result2, an1, exc, ran, evals>>

\* mp.dps = d
SetDps(d) ==
    /\ pc = "idle"
    /\ d # dps
    /\ dps' = d
    /\ UNCHANGED <<table, a, b, poly, made, last>>
    /\ UNCHANGED CompareVars

\* poly.get_list(n)
GetList(n) ==
    /\ pc = "idle"
    /\ \E g \in {get_list(poly, n)} :
           /\ poly' = g.poly
           /\ made' = AddMade(made, g.made)
           /\ last' = [op |-> "get_list", n |-> n, hit |-> InStored(poly, n),
                       exc |-> g.exc, line |-> g.line, ret |-> g.ret]
    /\ UNCHANGED <<table, a, b, dps>>
    /\ UNCHANGED CompareVars

\* integrals[key].evaluate(x, poly)
Evaluate(key, x) ==
    /\ pc = "idle"
    /\ InTable(key)
    /\ \E r \in {KnlIntEvaluate(Entry(key), mpf(x), poly, dps)} :
           /\ poly' = r.poly
           /\ made' = AddMade(made, r.made)
           /\ last' = [op |-> "evaluate", key |-> key, x |-> x, dps |-> dps,
                       exc |-> r.exc, line |-> r.line, ret |-> r.ret, prec |-> r.prec]
    /\ UNCHANGED <<table, a, b, dps>>
    /\ UNCHANGED CompareVars

\* Compare(x1, x2, n, l, a, b) up to line 373: poly = Polynomial(a, b).
\* Compare is called from the top level of the module (lines 396-400), not
\* in between the direct calls of a session: it reads a, b and mp.dps and
\* builds a context of its own.
CompareCall(x1, x2, n, l) ==
    /\ pc = "idle"
    /\ last = None
    /\ args' = [x1 |-> x1, x2 |-> x2, n |-> n, l |-> l]
    /\ poly' = Polynomial(mpf(a), mpf(b))
    /\ made' = [k \in Degrees |-> 0]
    /\ last' = None
    /\ pc' = "374"
    /\ ran' = <<373>>
    /\ UNCHANGED <<table, a, b, dps, result1, result2, an1, exc, evals>>

\* A faulty variant of BoundStatement that swallows the exception of
\* evaluate and carries on with the value 0.
BoundStatement_Swallow(ln, x, next) ==
    LET key == <<args.n, args.l>>
    IN  IF ~InTable(key)
        THEN /\ exc' = [name |-> "KeyError", line |-> ln, prec |-> None]
             /\ pc' = "raised"
             /\ UNCHANGED <<poly, made, evals, result1, result2>>
        ELSE \E r \in {KnlIntEvaluate(Entry(key), mpf(x), poly, dps)} :
                 /\ poly' = r.poly
                 /\ made' = AddMade(made, r.made)
                 /\ evals' = evals + 1
                 /\ exc' = exc
                 /\ pc' = next
                 /\ LET v == IF r.exc # NoExc THEN mpf(0) ELSE r.ret
                    IN  IF ln = 374
                        THEN result1' = [ret |-> v, prec |-> r.prec] /\ result2' = result2
                        ELSE result2' = [ret |-> v, prec |-> r.prec] /\ result1' = result1

\* A faulty variant of BoundStatement that falls back to the entry (4, 0)
\* when the key is missing.
BoundStatement_Default(ln, x, next) ==
    LET key == <<args.n, args.l>>
        entry == IF InTable(key) THEN Entry(key) ELSE Entry(<<4, 0>>)
    IN  \E r \in {KnlIntEvaluate(entry, mpf(x), poly, dps)} :
            /\ poly' = r.poly
            /\ made' = AddMade(made, r.made)
            /\ evals' = evals + 1
            /\ IF r.exc # NoExc
               THEN /\ exc' = [name |-> r.exc, line |-> r.line, prec |-> r.prec]
                    /\ pc' = "raised"
                    /\ UNCHANGED <<result1, result2>>
               ELSE /\ exc' = exc
                    /\ pc' = next
                    /\ IF ln = 374
                       THEN result1' = [ret |-> r.ret, prec |-> r.prec] /\ result2' = result2
                       ELSE result2' = [ret |-> r.ret, prec |-> r.prec] /\ result1' = result1

\* The statement resultN = integrals[(n, l)].evaluate(x, poly) of line ln:
\* the subscript raises KeyError before evaluate is called.
BoundStatement(ln, x, next) ==
    LET key == <<args.n, args.l>>
    IN  IF ~InTable(key)
        THEN /\ exc' = [name |-> "KeyError", line |-> ln, prec |-> None]
             /\ pc' = "raised"
             /\ UNCHANGED <<poly, made, evals, result1, result2>>
        ELSE \E r \in {KnlIntEvaluate(Entry(key), mpf(x), poly, dps)} :
                 /\ poly' = r.poly
                 /\ made' = AddMade(made, r.made)
                 /\ evals' = evals + 1
                 /\ IF r.exc # NoExc
                    THEN /\ exc' = [name |-> r.exc, line |-> r.line, prec |-> r.prec]
                         /\ pc' = "raised"
                         /\ UNCHANGED <<result1, result2>>
                    ELSE /\ exc' = exc
                         /\ pc' = next
                         /\ IF ln = 374
                            THEN result1' = [ret |-> r.ret, prec |-> r.prec] /\ result2' = result2
                            ELSE result2' = [ret |-> r.ret, prec |-> r.prec] /\ result1' = result1

\* result1 = integrals[(n, l)].evaluate(x1, poly)
Line374 ==
    /\ pc = "374"
    /\ BoundStatement(374, args.x1, "375")
    /\ ran' = Append(ran, 374)
    /\ UNCHANGED <<table, a, b, dps, last, args, an1>>

\* result2 = integrals[(n, l)].evaluate(x2, poly)
Line375 ==
    /\ pc = "375"
    /\ BoundStatement(375, args.x2, "376")
    /\ ran' = Append(ran, 375)
    /\ UNCHANGED <<table, a, b, dps, last, args, an1>>

\* A faulty variant of line 376 that subtracts the wrong way round.
Line376_Reversed ==
    /\ pc = "376"
    /\ an1' = Sub(result1.ret, result2.ret)
    /\ pc' = "done"
    /\ ran' = Append(ran, 376)
    /\ UNCHANGED <<table, a, b, dps, poly, made, last, args, result1, result2, exc, evals>>

\* an1 = result2-result1
Line376 ==
    /\ pc = "376"
    /\ an1' = Sub(result2.ret, result1.ret)
    /\ pc' = "done"
    /\ ran' = Append(ran, 376)
    /\ UNCHANGED <<table, a, b, dps, poly, made, last, args, result1, result2, exc, evals>>

Next ==
    \/ \E d \in DpsChoices : SetDps(d)
    \/ \E n \in 0..MaxDeg : GetList(n)
    \/ \E key \in DirectKeys, x \in Points : Evaluate(key, x)
    \/ \E x1 \in Points, x2 \in Points, key \in QueryKeys : CompareCall(x1, x2, key[1], key[2])
    \/ Line374
    \/ Line375
    \/ Line376

Spec == Init /\ [][Next]_vars

(***************************************************************************)
(* Calls on a context and on a Term outside the table: poly.eval_poly and  *)
(* Term(c, n, m, coeffs).evaluate(x, poly), on the session's context.      *)
(***************************************************************************)
\* The list [1, 2, ..., k] passed as coeffs
IntCoeffs(k) == [i \in 1..k |-> i]

\* Coefficient vectors passed to eval_poly: [mp.mpf(1), ..., mp.mpf(k)]
CoeffVectors == {[i \in 1..k |-> mpf(i)] : k \in 0..MaxDeg}

\* Terms constructed by a caller
Terms == {Term(I(-2), n, m, IntCoeffs(k)) : n \in {-1, 2}, m \in {0, 1}, k \in 0..MaxDeg}

\* Lines 83-84: the power (poly.a * poly.b) ** self.m is computed only
\* under if self.m != 0
AbmComputed(term) == term.m # 0

\* poly.eval_poly(coeff)
EvalPoly(coeff) ==
    /\ pc = "idle"
    /\ \E r \in {eval_poly(poly, coeff)} :
           /\ poly' = r.poly
           /\ made' = AddMade(made, r.made)
           /\ last' = [op |-> "eval_poly", coeff |-> coeff,
                       exc |-> r.exc, line |-> r.line, ret |-> r.ret]
    /\ UNCHANGED <<table, a, b, dps>>
    /\ UNCHANGED CompareVars

\* term.evaluate(x, poly)
TermCall(term, x) ==
    /\ pc = "idle"
    /\ \E r \in {TermEvaluate(term, mpf(x), poly)} :
           /\ poly' = r.poly
           /\ made' = AddMade(made, r.made)
           /\ last' = [op |-> "term", term |-> term, x |-> x,
                       abm |-> r.exc = NoExc /\ AbmComputed(term),
                       exc |-> r.exc, line |-> r.line, ret |-> r.ret]
    /\ UNCHANGED <<table, a, b, dps>>
    /\ UNCHANGED CompareVars

UnitNext ==
    \/ \E n \in 0..MaxDeg : GetList(n)
    \/ \E coeff \in CoeffVectors : EvalPoly(coeff)
    \/ \E term \in Terms, x \in Points : TermCall(term, x)

UnitSpec == Init /\ [][UnitNext]_vars

(***************************************************************************)
(* Properties.                                                             *)
(***************************************************************************)
\* The key Compare looks up
CallKey == <<args.n, args.l>>

\* A context built from (a, b) with an empty cache
Fresh == Polynomial(mpf(a), mpf(b))

\* F(x): the table entry's evaluate at x on a fresh context
F(x) == KnlIntEvaluate(Entry(CallKey), mpf(x), Fresh, dps)

Called == pc \notin {"idle", "374"}

IsBelow(prec) == prec # None /\ ExtLt(prec, MinPrecision)

GuardPassed(r) == r.exc = NoExc /\ ~ExtLt(r.prec, MinPrecision)

\* m[k] = a^(2(n-1-k)) * b^(2k), 0 <= k < n
Monomial(n, k) == Mul(Pow(mpf(a), 2 * (n - 1 - k)), Pow(mpf(b), 2 * k))

IsMonomials(lst, n) ==
    /\ Len(lst) = n
    /\ \A k \in 0..(n - 1) : lst[k + 1] = Monomial(n, k)

\* sum over k of coeffs[k] * m[k]
WeightedSum(coeffs) ==
    sum([k \in 1..Len(coeffs) |-> Mul(coeffs[k], Monomial(Len(coeffs), k - 1))])

\* c * x^n * (a*b)^m * weighted sum
TermValue(t, x) ==
    Mul(Mul(Mul(MpfOfLit(t.c), Pow(x, t.n)), Pow(mpf(a * b), t.m)), WeightedSum(t.coeffs))

PartValue(part, x) ==
    sum([i \in 1..Len(part.terms) |-> TermValue(part.terms[i], x)])

\* T1 + T2 + T3 + T4 of an expression e at x
Antiderivative(e, x) ==
    LET Sc == PartValue(e.parts[1], x)
        Dc == PartValue(e.parts[2], x)
        Ss == PartValue(e.parts[3], x)
        Ds == PartValue(e.parts[4], x)
        alpha == mpf(a + b)
        beta == mpf(a - b)
        scale == Div(<<1, 4>>, Pow(mpf(a * b), e.l + 1))
        T1 == Mul(scale, Div(Mul(cos(Mul(alpha, x)), Add(Sc, Dc)), Pow(alpha, e.n - 2)))
        T2 == Mul(scale, Div(Mul(cos(Mul(beta, x)), Sub(Sc, Dc)), Pow(beta, e.n - 2)))
        T3 == Mul(scale, Div(Mul(sin(Mul(alpha, x)), Add(Ss, Ds)), Pow(alpha, e.n - 1)))
        T4 == Mul(scale, Div(Mul(sin(Mul(beta, x)), Sub(Ss, Ds)), Pow(beta, e.n - 1)))
    IN  Add(Add(Add(T1, T2), T3), T4)

\* C1: when both bound evaluations succeed, Compare's definite integral is
\* exactly F(x_upper) - F(x_lower) for the table entry's evaluate F, and both
\* bounds are evaluated on the one context built once from (a, b): the
\* context Compare ends with is the fresh context after the lower and then
\* the upper evaluation.
C1_DefiniteIntegral ==
    pc = "done" =>
        /\ InTable(CallKey)
        /\ F(args.x1).exc = NoExc
        /\ F(args.x2).exc = NoExc
        /\ an1 = Sub(F(args.x2).ret, F(args.x1).ret)
        /\ poly = KnlIntEvaluate(Entry(CallKey), mpf(args.x2), F(args.x1).poly, dps).poly
        /\ poly.a = mpf(a)
        /\ poly.b = mpf(b)
        /\ ran = <<373, 374, 375, 376>>

C1_Witness ==
    /\ pc = "done"
    /\ args.x1 # args.x2
    /\ ~IsZero(result1.ret)
    /\ ~IsZero(result2.ret)
    /\ ~IsZero(an1)

\* C2: when the guard passes, KnlInt.evaluate returns T1+T2+T3+T4 with
\* T1 = cos((a+b)x)(Sc+Dc)/(a+b)^(n-2), T2 = cos((a-b)x)(Sc-Dc)/(a-b)^(n-2),
\* T3 = sin((a+b)x)(Ss+Ds)/(a+b)^(n-1), T4 = sin((a-b)x)(Ss-Ds)/(a-b)^(n-1),
\* each multiplied by 0.25/(a*b)^(l+1), for the values Sc, Dc, Ss, Ds of the
\* four parts in the order cosine-sum, cosine-diff, sine-sum, sine-diff.
C2_EvaluateFormula ==
    /\ (last # None /\ last.op = "evaluate" /\ last.exc = NoExc)
          => last.ret = Antiderivative(Entry(last.key), mpf(last.x))
    /\ result1 # None => result1.ret = Antiderivative(Entry(CallKey), mpf(args.x1))
    /\ result2 # None => result2.ret = Antiderivative(Entry(CallKey), mpf(args.x2))

C2_Witness ==
    /\ last # None
    /\ last.op = "evaluate"
    /\ last.exc = NoExc
    /\ last.key = <<6, 2>>
    /\ last.x # 0
    /\ ~IsZero(last.ret)

\* C3: KnlInt.evaluate never returns a value when the remaining precision
\* is below 13 digits; it then aborts with the InsufficientPrecision
\* failure, the SystemExit of sys.exit("Insufficient precision").
C3_InsufficientPrecisionAbort ==
    (last # None /\ last.op = "evaluate" /\ IsBelow(last.prec))
        => (last.ret = None /\ last.exc = "SystemExit")

\* C4: Compare yields a numeric value only if the precision guard passed at
\* both bounds; a failure at any statement ends the call at that statement:
\* no later statement has run, evaluate was not called again, and there is
\* no numeric result.
C4_FailuresSurface ==
    /\ an1 # None => pc = "done"
    /\ pc \in {"idle", "374", "375", "376", "done"} => exc = None
    /\ pc = "done" =>
          /\ evals = 2
          /\ GuardPassed(F(args.x1))
          /\ GuardPassed(F(args.x2))
    /\ pc = "raised" =>
          /\ an1 = None
          /\ result2 = None
          /\ exc.name \in {"KeyError", "ZeroDivisionError", "NameError"}
          /\ \/ /\ ran = <<373, 374>>
                /\ result1 = None
                /\ evals = IF exc.name = "KeyError" THEN 0 ELSE 1
             \/ /\ ran = <<373, 374, 375>>
                /\ result1 # None
                /\ evals = 2
          /\ ~ENABLED Next

C4_Witness ==
    /\ pc = "raised"
    /\ exc.name = "NameError"
    /\ ran = <<373, 374, 375>>

\* C5: with b equal to a, Compare on a table entry returns no value: it
\* fails with ZeroDivisionError, at the division by (a-b)^(n-2) in line 119
\* unless an earlier division by zero (x^n at x = 0 in line 81, or a+b = 0
\* in line 118) comes first.
C5_EqualScalesRejected ==
    (Called /\ a = b /\ InTable(CallKey)) =>
        /\ pc = "raised"
        /\ an1 = None
        /\ result1 = None
        /\ exc.name = "ZeroDivisionError"
        /\ exc.line \in {81, 118, 119}
        /\ (a # 0 /\ exc.line # 81) => exc.line = 119

C5_Witness ==
    /\ pc = "raised"
    /\ a = b
    /\ a # 0
    /\ args.x1 # 0
    /\ InTable(CallKey)
    /\ exc.line = 119

\* C6: for a table entry and a # b, Compare with x_lower = 0 or x_upper = 0
\* never returns a numeric value, and the evaluation at the zero bound is
\* rejected with a division by zero.
C6_ZeroBoundRejected ==
    (pc # "idle" /\ InTable(CallKey) /\ a # b /\ (args.x1 = 0 \/ args.x2 = 0)) =>
        /\ pc # "done"
        /\ (pc = "raised" /\ ran = <<373, 374>> /\ args.x1 = 0)
              => exc.name = "ZeroDivisionError"
        /\ (pc = "raised" /\ ran = <<373, 374, 375>> /\ args.x2 = 0)
              => exc.name = "ZeroDivisionError"

\* C7: for a key without a table entry, Compare raises KeyError at the
\* lookup of line 374, before evaluate is called on the context, and
\* returns no value.
C7_MissingKeyNotFound ==
    (Called /\ ~InTable(CallKey)) =>
        /\ pc = "raised"
        /\ exc.name = "KeyError"
        /\ exc.line = 374
        /\ ran = <<373, 374>>
        /\ evals = 0
        /\ poly = Fresh
        /\ \A n \in Degrees : made[n] = 0
        /\ result1 = None
        /\ result2 = None
        /\ an1 = None

C7_Witness ==
    /\ pc = "raised"
    /\ CallKey = <<8, 0>>

\* C8 as stated: for every n in {2,4,6} and 0 <= l <= 10 the table lookup
\* succeeds.
C8_AllLookupsSucceed ==
    (Called /\ args.n \in {2, 4, 6} /\ args.l \in 0..10)
        => ~(pc = "raised" /\ exc.name = "KeyError")

\* C8 amended: for every n in {4,6} and 0 <= l <= 10 the table lookup
\* succeeds; n = 2 has no table entry.
C8_TabulatedLookupsSucceed ==
    /\ \A n \in {4, 6}, l \in 0..10 : InTable(<<n, l>>)
    /\ \A l \in 0..10 : ~InTable(<<2, l>>)
    /\ (Called /\ args.n \in {4, 6} /\ args.l \in 0..10)
          => ~(pc = "raised" /\ exc.name = "KeyError")
    /\ (Called /\ args.n = 2) => (pc = "raised" /\ exc.name = "KeyError")

C8_Witness ==
    /\ pc = "done"
    /\ CallKey = <<6, 2>>

C10_ComputedAtMostOnce ==
    /\ \A n \in Degrees : made[n] <= 1 /\ (made[n] = 1 <=> InStored(poly, n))
    /\ (last # None /\ last.op = "get_list" /\ last.exc = NoExc)
          => /\ InStored(poly, last.n)
             /\ last.ret = Stored(poly, last.n)

C10_Witness ==
    /\ last # None
    /\ last.op = "get_list"
    /\ last.hit
    /\ last.n >= 1
    /\ made[last.n] = 1

\* C11: eval_poly on a coefficient vector of length 0 returns 0, for every
\* context (a, b), without raising an error.
C11_EmptyWeightedSumIsZero ==
    (last # None /\ last.op = "eval_poly" /\ last.coeff = <<>>)
        => (last.exc = NoExc /\ last.ret = mpf(0))

\* C12: for every Term (c, n, m, coeffs) and every x > 0, Term.evaluate
\* returns c * x^n * (a*b)^m * sum over k of coeffs[k] * m[k] with the
\* monomials m[k] of degree len(coeffs); when m = 0 the factor (a*b)^m is
\* exactly 1 and no power of a*b is computed.
C12_TermProduct ==
    (last # None /\ last.op = "term" /\ last.x > 0)
        => /\ last.exc = NoExc
           /\ last.ret = TermValue(last.term, mpf(last.x))
           /\ last.term.m = 0 =>
                 /\ ~last.abm
                 /\ last.ret = Mul(Mul(MpfOfLit(last.term.c), Pow(mpf(last.x), last.term.n)),
                                   WeightedSum(last.term.coeffs))

\* The statement of C12 for the Terms with at least one coefficient
TermProductNonEmpty ==
    (last # None /\ last.op = "term" /\ last.term.coeffs = <<>>) \/ C12_TermProduct

\* The outcome recorded in rec is the outcome f: the same value and
\* remaining precision, or the same failure at the same line
SameOutcome(rec, f) ==
    /\ rec.exc = f.exc
    /\ rec.line = f.line
    /\ rec.ret = f.ret
    /\ rec.prec = f.prec

\* C13: for identical (n, l, a, b, x) an evaluation yields the same output
\* (the same value or the same failure) whatever the cache history of its
\* context: on a reused context, with the cache empty, partly or fully
\* populated by earlier calls, it yields what it yields on a fresh context.
C13_CacheIndependent ==
    /\ (last # None /\ last.op = "evaluate")
          => SameOutcome(last, KnlIntEvaluate(Entry(last.key), mpf(last.x), Fresh, last.dps))
    /\ result1 # None
          => SameOutcome([exc |-> NoExc, line |-> 0, ret |-> result1.ret, prec |-> result1.prec],
                         F(args.x1))
    /\ result2 # None
          => SameOutcome([exc |-> NoExc, line |-> 0, ret |-> result2.ret, prec |-> result2.prec],
                         F(args.x2))
    /\ (pc = "raised" /\ exc.name # "KeyError")
          => SameOutcome([exc |-> exc.name, line |-> exc.line, ret |-> None, prec |-> exc.prec],
                         F(IF result1 = None THEN args.x1 ELSE args.x2))

C13_Witness ==
    /\ last # None
    /\ last.op = "evaluate"
    /\ last.key = <<4, 0>>
    /\ last.exc = NoExc
    /\ ~IsZero(last.ret)
    /\ \E e \in poly.stored : e[1] >= 3

(***************************************************************************)
(* C15: every entry of the table stored under (n, l) has that n and l and  *)
(* exactly four parts, which are the csum, cdiff, ssum and sdiff of the    *)
(* block that assigned it, in this order; and no assignment of the         *)
(* population replaces an entry made by an earlier one: the dict built by  *)
(* the assignments before it has no entry under the key it assigns.        *)
(***************************************************************************)
C15_EntriesMatchKeys ==
    /\ \A e \in table :
           /\ e.val.n = e.key[1]
           /\ e.val.l = e.key[2]
           /\ Len(e.val.parts) = 4
           /\ \E i \in 1..Len(Population) :
                  /\ Key(Population[i]) = e.key
                  /\ e.val.parts[1] = Population[i].csum
                  /\ e.val.parts[2] = Population[i].cdiff
                  /\ e.val.parts[3] = Population[i].ssum
                  /\ e.val.parts[4] = Population[i].sdiff
    /\ \A k \in 1..Len(Population) :
           \A e \in Populate(k - 1) : e.key # Key(Population[k])

\* An evaluation of the entry (4, 0) has returned a value; the table holds
\* its 22 entries, and the parts of (4, 0) differ from one another.
C15_Witness ==
    /\ last # None
    /\ last.op = "evaluate"
    /\ last.key = <<4, 0>>
    /\ last.exc = NoExc
    /\ Cardinality(table) = 22
    /\ Entry(<<4, 0>>).parts[1].terms = <<>>
    /\ Len(Entry(<<4, 0>>).parts[4].terms) = 2
    /\ Entry(<<6, 10>>).l = 10

(***************************************************************************)
(* C16: no step of a session changes the table, and with it no entry, Part *)
(* or Term (c, n, m, coeffs) of it.  On the context a step leaves a, b,    *)
(* a2 and b2 as they are, and every pair (n, list) of the cache stays in   *)
(* the cache with the same list, under at most one list per n: the cache   *)
(* only gains entries.  The one step that is not about the context in use  *)
(* is line 373 of Compare, which builds a context of its own.              *)
(***************************************************************************)
\* Line 373: poly = Polynomial(a, b)
Line373 == pc = "idle" /\ pc' = "374"

C16_OnlyTheCacheGrows ==
    [][/\ table' = table
       /\ ~Line373 =>
              /\ poly'.a = poly.a
              /\ poly'.b = poly.b
              /\ poly'.a2 = poly.a2
              /\ poly'.b2 = poly.b2
              /\ poly.stored \subseteq poly'.stored
              /\ \A e, f \in poly'.stored : e[1] = f[1] => e = f]_vars

\* An evaluation of the entry (6, 2) has returned on a context whose cache
\* held lists before it and holds at least three now; the table is the one
\* the module built.
C16_Witness ==
    /\ last # None
    /\ last.op = "evaluate"
    /\ last.key = <<6, 2>>
    /\ last.exc = NoExc
    /\ Cardinality(poly.stored) >= 3
    /\ \E n \in DOMAIN made : made[n] = 1 /\ InStored(poly, n)
    /\ table = integrals

====
